---- MODULE Spec2Model ----
(***************************************************************************)
(* Model of the query resolver of stock-ui/src/App.jsx: the alias table    *)
(* stockMappings and the function parseQuery, translated step by step.     *)
(* JavaScript strings are TLA+ strings handled character by character      *)
(* (Len, SubSeq and \o), so that the regular expressions of parseQuery are *)
(* modelled by what they match.                                            *)
(***************************************************************************)
EXTENDS Integers, Sequences, FiniteSets, TLC

VARIABLES query, pc, cleaned, result, step

vars == <<query, pc, cleaned, result, step>>

(***************************************************************************)
(* The alias table, in the insertion order of the object literal.          *)
(***************************************************************************)
stockMappings ==
    <<
       <<"apple", "AAPL">>,
       <<"aapl", "AAPL">>,
       <<"google", "GOOGL">>,
       <<"googl", "GOOGL">>,
       <<"alphabet", "GOOGL">>,
       <<"microsoft", "MSFT">>,
       <<"msft", "MSFT">>,
       <<"tesla", "TSLA">>,
       <<"tsla", "TSLA">>,
       <<"amazon", "AMZN">>,
       <<"amzn", "AMZN">>,
       <<"meta", "META">>,
       <<"facebook", "META">>,
       <<"netflix", "NFLX">>,
       <<"nflx", "NFLX">>,
       <<"nvidia", "NVDA">>,
       <<"nvda", "NVDA">>,
       <<"amd", "AMD">>,
       <<"intel", "INTC">>,
       <<"intc", "INTC">>,
       <<"ibm", "IBM">>,
       <<"oracle", "ORCL">>,
       <<"orcl", "ORCL">>,
       <<"salesforce", "CRM">>,
       <<"adobe", "ADBE">>,
       <<"adbe", "ADBE">>,
       <<"paypal", "PYPL">>,
       <<"pypl", "PYPL">>,
       <<"visa", "V">>,
       <<"mastercard", "MA">>,
       <<"jpmorgan", "JPM">>,
       <<"jpm", "JPM">>,
       <<"goldman", "GS">>,
       <<"goldman sachs", "GS">>,
       <<"bank of america", "BAC">>,
       <<"bac", "BAC">>,
       <<"walmart", "WMT">>,
       <<"wmt", "WMT">>,
       <<"coca cola", "KO">>,
       <<"cocacola", "KO">>,
       <<"coke", "KO">>,
       <<"pepsi", "PEP">>,
       <<"pepsico", "PEP">>,
       <<"mcdonalds", "MCD">>,
       <<"mcd", "MCD">>,
       <<"disney", "DIS">>,
       <<"dis", "DIS">>,
       <<"boeing", "BA">>,
       <<"ba", "BA">>,
       <<"uber", "UBER">>,
       <<"airbnb", "ABNB">>,
       <<"spotify", "SPOT">>,
       <<"zoom", "ZM">>,
       <<"snap", "SNAP">>,
       <<"snapchat", "SNAP">>,
       <<"twitter", "X">>,
       <<"x", "X">>,
       <<"tcs", "TCS.NS">>,
       <<"tata consultancy", "TCS.NS">>,
       <<"tata consultancy services", "TCS.NS">>,
       <<"reliance", "RELIANCE.NS">>,
       <<"ril", "RELIANCE.NS">>,
       <<"reliance industries", "RELIANCE.NS">>,
       <<"infosys", "INFY.NS">>,
       <<"infy", "INFY.NS">>,
       <<"hdfc", "HDFCBANK.NS">>,
       <<"hdfc bank", "HDFCBANK.NS">>,
       <<"hdfcbank", "HDFCBANK.NS">>,
       <<"icici", "ICICIBANK.NS">>,
       <<"icici bank", "ICICIBANK.NS">>,
       <<"icicibank", "ICICIBANK.NS">>,
       <<"sbi", "SBIN.NS">>,
       <<"state bank", "SBIN.NS">>,
       <<"state bank of india", "SBIN.NS">>,
       <<"wipro", "WIPRO.NS">>,
       <<"hcl", "HCLTECH.NS">>,
       <<"hcl tech", "HCLTECH.NS">>,
       <<"hcltech", "HCLTECH.NS">>,
       <<"tech mahindra", "TECHM.NS">>,
       <<"techm", "TECHM.NS">>,
       <<"tatamotors", "TATAMOTORS.NS">>,
       <<"tata motors", "TATAMOTORS.NS">>,
       <<"tatasteel", "TATASTEEL.NS">>,
       <<"tata steel", "TATASTEEL.NS">>,
       <<"maruti", "MARUTI.NS">>,
       <<"maruti suzuki", "MARUTI.NS">>,
       <<"bajaj", "BAJFINANCE.NS">>,
       <<"bajaj finance", "BAJFINANCE.NS">>,
       <<"bajaj auto", "BAJAJ-AUTO.NS">>,
       <<"kotak", "KOTAKBANK.NS">>,
       <<"kotak bank", "KOTAKBANK.NS">>,
       <<"kotak mahindra", "KOTAKBANK.NS">>,
       <<"axis", "AXISBANK.NS">>,
       <<"axis bank", "AXISBANK.NS">>,
       <<"airtel", "BHARTIARTL.NS">>,
       <<"bharti airtel", "BHARTIARTL.NS">>,
       <<"bhartiartl", "BHARTIARTL.NS">>,
       <<"asian paints", "ASIANPAINT.NS">>,
       <<"asianpaint", "ASIANPAINT.NS">>,
       <<"hindunilvr", "HINDUNILVR.NS">>,
       <<"hindustan unilever", "HINDUNILVR.NS">>,
       <<"hul", "HINDUNILVR.NS">>,
       <<"itc", "ITC.NS">>,
       <<"larsen", "LT.NS">>,
       <<"larsen and toubro", "LT.NS">>,
       <<"l&t", "LT.NS">>,
       <<"lt", "LT.NS">>,
       <<"sun pharma", "SUNPHARMA.NS">>,
       <<"sunpharma", "SUNPHARMA.NS">>,
       <<"dr reddy", "DRREDDY.NS">>,
       <<"drreddy", "DRREDDY.NS">>,
       <<"cipla", "CIPLA.NS">>,
       <<"adani", "ADANIENT.NS">>,
       <<"adani enterprises", "ADANIENT.NS">>,
       <<"adani ports", "ADANIPORTS.NS">>,
       <<"adani green", "ADANIGREEN.NS">>,
       <<"zomato", "ZOMATO.NS">>,
       <<"paytm", "PAYTM.NS">>,
       <<"nykaa", "NYKAA.NS">>,
       <<"ola", "OLECTRA.NS">>,
       <<"policybazaar", "POLICYBZR.NS">>
    >>

(* Object.prototype members that stockMappings[key] reaches for a          *)
(* lower-case key: the object literal inherits them.                       *)
prototypeMembers ==
    << <<"constructor", [type |-> "function", val |-> "Object"]>>,
       <<"__proto__", [type |-> "object", val |-> "Object.prototype"]>> >>

(***************************************************************************)
(* JavaScript values: strings, undefined, and the non-string values a      *)
(* property lookup can yield.                                              *)
(***************************************************************************)
Str(s) == [type |-> "string", val |-> s]

Undefined == [type |-> "undefined", val |-> ""]

(***************************************************************************)
(* Characters and character classes.                                       *)
(***************************************************************************)
Char(s, i) == SubSeq(s, i, i)

LowerLetters == "abcdefghijklmnopqrstuvwxyz"

UpperLetters == "ABCDEFGHIJKLMNOPQRSTUVWXYZ"

DigitChars == "0123456789"

CharsOf(s) == {Char(s, i) : i \in 1..Len(s)}

LowerSet == CharsOf(LowerLetters)

UpperSet == CharsOf(UpperLetters)

DigitSet == CharsOf(DigitChars)

(* \w of a JavaScript regular expression *)
WordChars == LowerSet \cup UpperSet \cup DigitSet \cup {"_"}

(* \s, restricted to the ASCII white space *)
WhiteSpace == {" ", "\t", "\n"}

(* the character class [?!.,'"] *)
SpecialChars == {"?", "!", ".", ",", "'", "\""}

LetterIndex(alphabet, c) == CHOOSE i \in 1..Len(alphabet) : Char(alphabet, i) = c

lowerChar(c) == IF c \in UpperSet THEN Char(LowerLetters, LetterIndex(UpperLetters, c)) ELSE c

upperChar(c) == IF c \in LowerSet THEN Char(UpperLetters, LetterIndex(LowerLetters, c)) ELSE c

(* A character by character transformation is defined on a range lo..hi   *)
(* of positions, as the result on the lower half followed by the result on *)
(* the upper half.                                                         *)
RECURSIVE lowerBetween(_, _, _)
lowerBetween(s, lo, hi) ==
    IF lo > hi THEN ""
    ELSE IF lo = hi THEN lowerChar(Char(s, lo))
    ELSE lowerBetween(s, lo, (lo + hi) \div 2) \o lowerBetween(s, ((lo + hi) \div 2) + 1, hi)

toLowerCase(s) == lowerBetween(s, 1, Len(s))

RECURSIVE upperBetween(_, _, _)
upperBetween(s, lo, hi) ==
    IF lo > hi THEN ""
    ELSE IF lo = hi THEN upperChar(Char(s, lo))
    ELSE upperBetween(s, lo, (lo + hi) \div 2) \o upperBetween(s, ((lo + hi) \div 2) + 1, hi)

toUpperCase(s) == upperBetween(s, 1, Len(s))

(* the positions of s that hold no white space *)
inkPositions(s) == {i \in 1..Len(s) : Char(s, i) \notin WhiteSpace}

trimStart(s) ==
    IF inkPositions(s) = {} THEN ""
    ELSE SubSeq(s, CHOOSE i \in inkPositions(s) : \A j \in inkPositions(s) : i <= j, Len(s))

trimEnd(s) ==
    IF inkPositions(s) = {} THEN ""
    ELSE SubSeq(s, 1, CHOOSE i \in inkPositions(s) : \A j \in inkPositions(s) : i >= j)

trim(s) == trimEnd(trimStart(s))

(* String.prototype.includes *)
includes(s, t) == \E i \in 0..(Len(s) - Len(t)) : SubSeq(s, i + 1, i + Len(t)) = t

endsWith(s, t) == Len(s) >= Len(t) /\ SubSeq(s, Len(s) - Len(t) + 1, Len(s)) = t

(***************************************************************************)
(* Step 1: /\.(NS|BO)$/i.test(upperQuery)                                  *)
(***************************************************************************)
upperQueryOf(q) == trim(toUpperCase(q))

(* the test with BO left out of the alternation *)
hasNseSuffixOnly(u) == endsWith(toUpperCase(u), ".NS")

hasExchangeSuffix(u) ==
    \E suffix \in {".NS", ".BO"} : endsWith(toUpperCase(u), suffix)

(***************************************************************************)
(* Step 2: normalisation.                                                  *)
(***************************************************************************)
removeWords ==
    << "stock", "share", "price", "of", "the", "what", "is", "whats",
       "show", "me", "get", "find", "check", "tell", "give", "current",
       "today", "now", "latest", "live", "real", "time", "realtime",
       "value", "rate", "cost", "worth", "trading", "at", "for", "please",
       "stocks", "shares", "prices" >>

(* cleaned.replace(/[?!.,'"]/g, ' ') *)
RECURSIVE replaceSpecialBetween(_, _, _)
replaceSpecialBetween(s, lo, hi) ==
    IF lo > hi THEN ""
    ELSE IF lo = hi THEN (IF Char(s, lo) \in SpecialChars THEN " " ELSE Char(s, lo))
    ELSE replaceSpecialBetween(s, lo, (lo + hi) \div 2)
             \o replaceSpecialBetween(s, ((lo + hi) \div 2) + 1, hi)

replaceSpecial(s) == replaceSpecialBetween(s, 1, Len(s))

(* is the character at position i of s a word character (false outside s) *)
isWordAt(s, i) == i >= 1 /\ i <= Len(s) /\ Char(s, i) \in WordChars

(* \b between positions i and i + 1 of s *)
wordBoundary(s, i) == isWordAt(s, i) # isWordAt(s, i + 1)

(* the pattern without its two \b: the word matched as a substring *)
matchesSubstringAt(s, word, i) ==
    /\ i + Len(word) - 1 <= Len(s)
    /\ toLowerCase(SubSeq(s, i, i + Len(word) - 1)) = toLowerCase(word)

(* does new RegExp(`\\b${word}\\b`, 'gi') match s at position i *)
matchesWordAt(s, word, i) ==
    /\ i + Len(word) - 1 <= Len(s)
    /\ wordBoundary(s, i - 1)
    /\ wordBoundary(s, i + Len(word) - 1)
    /\ toLowerCase(SubSeq(s, i, i + Len(word) - 1)) = toLowerCase(word)

(* the positions from i on at which the pattern matches *)
matchesFrom(s, word, i) == {k \in i..Len(s) : matchesWordAt(s, word, k)}

(* the replacement without the g flag: the first match only *)
replaceWordOnce(s, word) ==
    IF matchesFrom(s, word, 1) = {} THEN s
    ELSE LET m == CHOOSE k \in matchesFrom(s, word, 1) : \A j \in matchesFrom(s, word, 1) : k <= j
         IN  SubSeq(s, 1, m - 1) \o " " \o SubSeq(s, m + Len(word), Len(s))

(* cleaned.replace(new RegExp(`\\b${word}\\b`, 'gi'), ' ') from position i *)
(* on: each match, found from the end of the one before, becomes a space   *)
RECURSIVE replaceWordFrom(_, _, _)
replaceWordFrom(s, word, i) ==
    IF matchesFrom(s, word, i) = {} THEN SubSeq(s, i, Len(s))
    ELSE LET m == CHOOSE k \in matchesFrom(s, word, i) : \A j \in matchesFrom(s, word, i) : k <= j
         IN  SubSeq(s, i, m - 1) \o " " \o replaceWordFrom(s, word, m + Len(word))

replaceWord(s, word) == replaceWordFrom(s, word, 1)

(* for (const word of removeWords) cleaned = cleaned.replace(...), for the *)
(* words lo to hi of the list in order: first the lower half of the range, *)
(* then the upper half on its result                                       *)
RECURSIVE removeWordsBetween(_, _, _)
removeWordsBetween(s, lo, hi) ==
    IF lo = hi THEN replaceWord(s, removeWords[lo])
    ELSE CHOOSE r \in {removeWordsBetween(t, ((lo + hi) \div 2) + 1, hi) :
                          t \in {removeWordsBetween(s, lo, (lo + hi) \div 2)}} : TRUE

removeAllWords(s) == removeWordsBetween(s, 1, Len(removeWords))

(* cleaned.replace(/\s+/g, ' '): a run of white space becomes one space,  *)
(* written at the first position of the run                                *)
RECURSIVE collapseBetween(_, _, _)
collapseBetween(s, lo, hi) ==
    IF lo > hi THEN ""
    ELSE IF lo = hi
    THEN (IF Char(s, lo) \notin WhiteSpace THEN Char(s, lo)
          ELSE IF lo > 1 /\ Char(s, lo - 1) \in WhiteSpace THEN "" ELSE " ")
    ELSE collapseBetween(s, lo, (lo + hi) \div 2) \o collapseBetween(s, ((lo + hi) \div 2) + 1, hi)

collapseSpaces(s) == collapseBetween(s, 1, Len(s))

(* lines 155 to 174, one assignment to cleaned after the other *)
cleanedOf(q) ==
    CHOOSE r \in {trim(collapseSpaces(c)) :
                    c \in {removeAllWords(p) :
                             p \in {replaceSpecial(trim(toLowerCase(q)))}}} : TRUE

(***************************************************************************)
(* Steps 3 to 7.                                                           *)
(***************************************************************************)
ownKeys == {stockMappings[i][1] : i \in 1..Len(stockMappings)}

ownIndex(key) == CHOOSE i \in 1..Len(stockMappings) : stockMappings[i][1] = key

inheritedKeys == {prototypeMembers[j][1] : j \in 1..Len(prototypeMembers)}

inheritedIndex(key) == CHOOSE j \in 1..Len(prototypeMembers) : prototypeMembers[j][1] = key

(* stockMappings[key]: an own property, else an inherited one, else undefined *)
lookup(key) ==
    IF key \in ownKeys THEN Str(stockMappings[ownIndex(key)][2])
    ELSE IF key \in inheritedKeys THEN prototypeMembers[inheritedIndex(key)][2]
    ELSE Undefined

(* the truthiness test of an if *)
truthy(v) == v.type # "undefined" /\ ~(v.type = "string" /\ v.val = "")

(* the condition without cleaned.includes(name) *)
partialMatchOneWay(c, name) == c = name \/ includes(name, c)

(* cleaned === name || cleaned.includes(name) || name.includes(cleaned) *)
partialMatch(c, name) == c = name \/ includes(c, name) \/ includes(name, c)

(* the scan that keeps going: the last matching entry wins *)
lastPartialMatch(c) ==
    IF \E i \in 1..Len(stockMappings) : partialMatch(c, stockMappings[i][1])
    THEN CHOOSE i \in 1..Len(stockMappings) :
            /\ partialMatch(c, stockMappings[i][1])
            /\ \A j \in (i + 1)..Len(stockMappings) : ~partialMatch(c, stockMappings[j][1])
    ELSE 0

(* for (const [name, symbol] of Object.entries(stockMappings)): the index  *)
(* of the entry at which the loop returns, the first one that matches;     *)
(* 0 if the loop ends                                                      *)
firstPartialMatch(c) ==
    IF \E i \in 1..Len(stockMappings) : partialMatch(c, stockMappings[i][1])
    THEN CHOOSE i \in 1..Len(stockMappings) :
            /\ partialMatch(c, stockMappings[i][1])
            /\ \A j \in 1..(i - 1) : ~partialMatch(c, stockMappings[j][1])
    ELSE 0

(* cleaned.split(' ') *)
RECURSIVE split(_)
split(s) ==
    IF ~includes(s, " ") THEN <<s>>
    ELSE LET i == CHOOSE k \in 1..Len(s) : Char(s, k) = " " /\ ~includes(SubSeq(s, 1, k - 1), " ")
         IN  <<SubSeq(s, 1, i - 1)>> \o split(SubSeq(s, i + 1, Len(s)))

(* for (const word of words) if (word && stockMappings[word]): the index  *)
(* of the word at which the loop returns, the first one with a truthy      *)
(* lookup; 0 if the loop ends                                              *)
wordHit(ws, i) == ws[i] # "" /\ truthy(lookup(ws[i]))

firstWordHit(ws) ==
    IF \E i \in 1..Len(ws) : wordHit(ws, i)
    THEN CHOOSE i \in 1..Len(ws) : wordHit(ws, i) /\ \A j \in 1..(i - 1) : ~wordHit(ws, j)
    ELSE 0

(* .replace(/\s+/g, '') *)
RECURSIVE removeSpacesBetween(_, _, _)
removeSpacesBetween(s, lo, hi) ==
    IF lo > hi THEN ""
    ELSE IF lo = hi THEN (IF Char(s, lo) \in WhiteSpace THEN "" ELSE Char(s, lo))
    ELSE removeSpacesBetween(s, lo, (lo + hi) \div 2)
             \o removeSpacesBetween(s, ((lo + hi) \div 2) + 1, hi)

removeSpaces(s) == removeSpacesBetween(s, 1, Len(s))

symbolCandidateOf(c) == removeSpaces(toUpperCase(c))

(* /^[A-Z0-9-]+$/.test(symbolCandidate) *)
looksLikeSymbol(s) ==
    s # "" /\ \A i \in 1..Len(s) : Char(s, i) \in UpperSet \cup DigitSet \cup {"-"}

(* words[0]?.toUpperCase() || cleaned.toUpperCase() *)
lastResort(c) ==
    IF toUpperCase(split(c)[1]) # "" THEN toUpperCase(split(c)[1]) ELSE toUpperCase(c)

(***************************************************************************)
(* parseQuery as a function: the step that returns and the value returned. *)
(***************************************************************************)
parseCleaned(c) ==
    IF truthy(lookup(c)) THEN [step |-> 3, value |-> lookup(c)]
    ELSE IF firstPartialMatch(c) # 0
    THEN [step |-> 4, value |-> Str(stockMappings[firstPartialMatch(c)][2])]
    ELSE IF firstWordHit(split(c)) # 0
    THEN [step |-> 5, value |-> lookup(split(c)[firstWordHit(split(c))])]
    ELSE IF looksLikeSymbol(symbolCandidateOf(c))
    THEN [step |-> 6, value |-> Str(symbolCandidateOf(c))]
    ELSE [step |-> 7, value |-> Str(lastResort(c))]

(* the whole function; cleaned is computed once and then read *)
parseQuery(q) ==
    IF hasExchangeSuffix(upperQueryOf(q)) THEN [step |-> 1, value |-> Str(upperQueryOf(q))]
    ELSE CHOOSE r \in {parseCleaned(c) : c \in {cleanedOf(q)}} : TRUE

(***************************************************************************)
(* The queries the resolver is run on: every alias and every symbol of the *)
(* table, the example queries, every stop word alone and beside a word,    *)
(* and every phrase of at most MaxWords vocabulary words, each followed by *)
(* a separator.                                                            *)
(***************************************************************************)
MaxWords == 2

Names == {stockMappings[i][1] : i \in 1..Len(stockMappings)}

Symbols == {stockMappings[i][2] : i \in 1..Len(stockMappings)}

Examples ==
    { "", " ", "what is the price", "tcs stock price", "TCS Stock Price?", "tata motors",
      "XYZ123", "buy some tcs shares now", "Apple", "AAPL", "metal", "at&t", "real-time",
      "__proto__", "price of bank of america", " \t tcs,  STOCK?? at\n", "  Tcs.Bo\n",
      "reliance.ns", "what's the price of l&t today" }

StopWordQueries ==
    UNION {{removeWords[k], "gs " \o removeWords[k], removeWords[k] \o " tata"} :
              k \in 1..Len(removeWords)}

Vocabulary == {"tcs", "tata", "apple", "gs", "constructor", "at", "Stock", "Ns"}

Separators == {" ", ".", "&"}

RECURSIVE Phrases(_)
Phrases(n) ==
    IF n = 0 THEN {""}
    ELSE {""} \cup {w \o sep \o p : w \in Vocabulary, sep \in Separators, p \in Phrases(n - 1)}

Queries == Names \cup Symbols \cup Examples \cup StopWordQueries \cup Phrases(MaxWords)

(***************************************************************************)
(* parseQuery step by step: pc is the statement about to run, step the     *)
(* number of the return statement that produced result.                    *)
(***************************************************************************)
Init ==
    /\ query \in Queries
    /\ pc = "start"
    /\ cleaned = ""
    /\ result = Undefined
    /\ step = 0

Return(n, v) ==
    /\ pc' = "done"
    /\ step' = n
    /\ result' = v
    /\ UNCHANGED query

(* if (/\.(NS|BO)$/i.test(upperQuery)) return upperQuery *)
SuffixReturn ==
    /\ pc = "start"
    /\ hasExchangeSuffix(upperQueryOf(query))
    /\ Return(1, Str(upperQueryOf(query)))
    /\ UNCHANGED cleaned

(* lines 155 to 174: cleaned is computed *)
Normalize ==
    /\ pc = "start"
    /\ ~hasExchangeSuffix(upperQueryOf(query))
    /\ cleaned' = cleanedOf(query)
    /\ pc' = "exact"
    /\ UNCHANGED <<query, result, step>>

(* if (stockMappings[cleaned]) return stockMappings[cleaned] *)
ExactReturn ==
    /\ pc = "exact"
    /\ truthy(lookup(cleaned))
    /\ Return(3, lookup(cleaned))
    /\ UNCHANGED cleaned

ExactMiss ==
    /\ pc = "exact"
    /\ ~truthy(lookup(cleaned))
    /\ pc' = "partial"
    /\ UNCHANGED <<query, cleaned, result, step>>

(* the loop over Object.entries(stockMappings) returns at its first match *)
PartialReturn ==
    /\ pc = "partial"
    /\ firstPartialMatch(cleaned) # 0
    /\ Return(4, Str(stockMappings[firstPartialMatch(cleaned)][2]))
    /\ UNCHANGED cleaned

PartialMiss ==
    /\ pc = "partial"
    /\ firstPartialMatch(cleaned) = 0
    /\ pc' = "words"
    /\ UNCHANGED <<query, cleaned, result, step>>

(* the loop over words returns at the first word with a truthy lookup *)
WordReturn ==
    /\ pc = "words"
    /\ firstWordHit(split(cleaned)) # 0
    /\ Return(5, lookup(split(cleaned)[firstWordHit(split(cleaned))]))
    /\ UNCHANGED cleaned

WordMiss ==
    /\ pc = "words"
    /\ firstWordHit(split(cleaned)) = 0
    /\ pc' = "shape"
    /\ UNCHANGED <<query, cleaned, result, step>>

(* if (/^[A-Z0-9-]+$/.test(symbolCandidate)) return symbolCandidate *)
ShapeReturn ==
    /\ pc = "shape"
    /\ looksLikeSymbol(symbolCandidateOf(cleaned))
    /\ Return(6, Str(symbolCandidateOf(cleaned)))
    /\ UNCHANGED cleaned

(* return words[0]?.toUpperCase() || cleaned.toUpperCase() *)
LastResortReturn ==
    /\ pc = "shape"
    /\ ~looksLikeSymbol(symbolCandidateOf(cleaned))
    /\ Return(7, Str(lastResort(cleaned)))
    /\ UNCHANGED cleaned

Next ==
    \/ SuffixReturn
    \/ Normalize
    \/ ExactReturn
    \/ ExactMiss
    \/ PartialReturn
    \/ PartialMiss
    \/ WordReturn
    \/ WordMiss
    \/ ShapeReturn
    \/ LastResortReturn

Spec == Init /\ [][Next]_vars

(***************************************************************************)
(* Definitions the properties are stated with.                             *)
(***************************************************************************)
done == pc = "done"

(* the cleaned query was computed: no short-circuit *)
normalized == pc = "done" /\ step # 1

isStopWord(w) == \E k \in 1..Len(removeWords) : removeWords[k] = w

(* the trimmed query ends in .ns or .bo, in any letter case *)
endsInExchangeSuffix(q) ==
    /\ Len(trim(q)) >= 3
    /\ toLowerCase(SubSeq(trim(q), Len(trim(q)) - 2, Len(trim(q)))) \in {".ns", ".bo"}

(* the aliases that contain c or are contained in c, by table index *)
substringCompatible(c) ==
    {i \in 1..Len(stockMappings) :
        includes(c, stockMappings[i][1]) \/ includes(stockMappings[i][1], c)}

earliest(S) == CHOOSE i \in S : \A j \in S : i <= j

(* the maximal runs of word characters of s, in order: a run starts at a  *)
(* word character that follows none and ends before the next non-word one  *)
runStarts(s) == {i \in 1..Len(s) : isWordAt(s, i) /\ ~isWordAt(s, i - 1)}

runEnd(s, i) == CHOOSE j \in i..Len(s) : ~isWordAt(s, j + 1) /\ \A k \in i..j : isWordAt(s, k)

wordRuns(s) ==
    [n \in 1..Cardinality(runStarts(s)) |->
        LET i == CHOOSE a \in runStarts(s) : Cardinality({b \in runStarts(s) : b < a}) = n - 1
        IN  SubSeq(s, i, runEnd(s, i))]

notStopWord(w) == ~isStopWord(w)

elements(seq) == {seq[i] : i \in 1..Len(seq)}

(* the words of seq other than the i-th, joined by single spaces *)
RECURSIVE joinWithout(_, _, _)
joinWithout(seq, i, k) ==
    IF k > Len(seq) THEN ""
    ELSE IF k = i THEN joinWithout(seq, i, k + 1)
    ELSE seq[k] \o (IF k = Len(seq) \/ (k + 1 = i /\ i = Len(seq)) THEN "" ELSE " ")
                \o joinWithout(seq, i, k + 1)

(* query is withoutWord(query, i) with the stop word split(query)[i] added *)
withoutWord(q, i) == joinWithout(split(q), i, 1)

stopWordPositions(q) == {i \in 1..Len(split(q)) : isStopWord(toLowerCase(split(q)[i]))}

(* the positions of the words of c that are alias keys *)
aliasWordPositions(c) == {i \in 1..Len(split(c)) : split(c)[i] \in Names}

(***************************************************************************)
(* C1. Alias coverage: for every (alias, symbol) entry of stockMappings,   *)
(* parseQuery(alias) returns that entry's symbol.                          *)
(***************************************************************************)
AliasCoverage ==
    done => \A i \in 1..Len(stockMappings) :
                query = stockMappings[i][1] => result = Str(stockMappings[i][2])

(***************************************************************************)
(* C2. Empty cleaned query: a query that takes no short-circuit and whose  *)
(* cleaned query is empty matches no alias and returns the empty string.   *)
(***************************************************************************)
EmptyCleanedReturnsEmpty ==
    normalized /\ cleaned = "" => step = 7 /\ result = Str("")

(***************************************************************************)
(* C3. Shape fallback: a query of letters, digits and '-' whose cleaned    *)
(* form is not empty and not an alias key returns the cleaned query        *)
(* upper-cased with spaces removed; parseQuery("XYZ123") is "XYZ123".      *)
(***************************************************************************)
ShapeFallback ==
    /\ normalized
    /\ looksLikeSymbol(toUpperCase(query))
    /\ looksLikeSymbol(symbolCandidateOf(cleaned))
    /\ cleaned \notin Names
    => result = Str(symbolCandidateOf(cleaned))

(***************************************************************************)
(* C4. Known symbol resolves to itself: for every symbol that is a value   *)
(* of the table, parseQuery(symbol) returns that symbol.                   *)
(***************************************************************************)
KnownSymbolResolvesToItself ==
    done /\ query \in Symbols => result = Str(query)

(***************************************************************************)
(* C5. Suffix short-circuit: a query whose trimmed form ends in .ns or .bo *)
(* in any letter case returns the trimmed query upper-cased, from step 1.  *)
(***************************************************************************)
SuffixShortCircuit ==
    done /\ endsInExchangeSuffix(query)
        => step = 1 /\ result = Str(toUpperCase(trim(query)))

SuffixShortCircuitWitness ==
    /\ done
    /\ endsInExchangeSuffix(query)
    /\ query # toUpperCase(trim(query))
    /\ result = Str(toUpperCase(trim(query)))

(***************************************************************************)
(* C6. Totality: every query returns a string, and a value returned by the *)
(* exact-match or the per-word lookup is a symbol of the table.            *)
(***************************************************************************)
AlwaysReturnsString ==
    done => /\ result.type = "string"
            /\ step \in {3, 5} => result.val \in Symbols

(***************************************************************************)
(* C7. Stop-word insensitivity: a query that has a stop word as one of its *)
(* space-delimited words returns what the query without that word returns, *)
(* when neither takes the short-circuit; "tcs stock price" and "tcs" both  *)
(* return "TCS.NS".                                                        *)
(***************************************************************************)
StopWordInsensitive ==
    normalized =>
        /\ \A i \in stopWordPositions(query) :
              ~endsInExchangeSuffix(withoutWord(query, i))
                  => parseQuery(withoutWord(query, i)).value = result
        /\ query \in {"tcs", "tcs stock price"} => result = Str("TCS.NS")

StopWordInsensitiveWitness ==
    /\ normalized
    /\ cleaned # ""
    /\ step = 6
    /\ \E i \in stopWordPositions(query) :
          /\ ~endsInExchangeSuffix(withoutWord(query, i))
          /\ parseQuery(withoutWord(query, i)).value = result

(***************************************************************************)
(* C8, as stated: every white-space delimited token of the query (lower    *)
(* case, punctuation replaced) that is not a stop word but contains one    *)
(* is a token of the cleaned query.                                        *)
(***************************************************************************)
TokensWithStopWordInsideUnchanged ==
    normalized =>
        \A t \in elements(split(trim(collapseSpaces(replaceSpecial(toLowerCase(query)))))) :
            (notStopWord(t) /\ \E k \in 1..Len(removeWords) : includes(t, removeWords[k]))
                => t \in elements(split(cleaned))

(***************************************************************************)
(* C8, amended: a stop word is deleted exactly where it is a maximal run   *)
(* of word characters; the other maximal runs of word characters of the    *)
(* lower-cased query are the runs of the cleaned query, unchanged and in   *)
(* order, and parseQuery("tata motors") is "TATAMOTORS.NS".                *)
(***************************************************************************)
WordBoundaryRemoval ==
    normalized =>
        /\ wordRuns(cleaned) = SelectSeq(wordRuns(toLowerCase(query)), notStopWord)
        /\ query = "tata motors" => result = Str("TATAMOTORS.NS")

WordBoundaryRemovalWitness ==
    /\ normalized
    /\ "at" \in elements(wordRuns(toLowerCase(query)))
    /\ "tata" \in elements(wordRuns(cleaned))
    /\ "at" \notin elements(wordRuns(cleaned))

(***************************************************************************)
(* C9. First-defined wins: when the cleaned query is not an alias key and  *)
(* some alias contains it or is contained in it, the symbol returned is    *)
(* that of the first such alias in the order of the table.                 *)
(***************************************************************************)
FirstDefinedWins ==
    normalized /\ cleaned \notin Names /\ substringCompatible(cleaned) # {}
        => result = Str(stockMappings[earliest(substringCompatible(cleaned))][2])

FirstDefinedWinsWitness ==
    /\ normalized
    /\ cleaned = "tata"
    /\ result = Str("TCS.NS")
    /\ \E i \in substringCompatible(cleaned) : stockMappings[i][2] # "TCS.NS"

(***************************************************************************)
(* C10. The per-word step never decides for a table alias: when a word of  *)
(* the cleaned query is an alias key, the exact match or the substring     *)
(* scan returns, with the symbol of the earliest substring-compatible      *)
(* alias and not that of the leftmost alias word.                          *)
(***************************************************************************)
PerWordStepNeverDecidesAlias ==
    normalized /\ (\E w \in elements(split(cleaned)) : w \in Names)
        => /\ step \in {3, 4}
           /\ step = 4 \/ Cardinality(aliasWordPositions(cleaned)) >= 2 =>
                result = Str(stockMappings[earliest(substringCompatible(cleaned))][2])

PerWordStepNeverDecidesAliasWitness ==
    /\ normalized
    /\ step = 4
    /\ Cardinality(aliasWordPositions(cleaned)) >= 2
    /\ result # lookup(split(cleaned)[earliest(aliasWordPositions(cleaned))])
====
